---- MODULE Spec2Model ----
(***************************************************************************)
(* PBS Gestor: the daemon that reads the daily PBS accounting logs, parses *)
(* every line into a job record and merges it into the reporting database. *)
(*                                                                         *)
(* The module models                                                       *)
(*   - the accounting directory (one file per day) and the wall clock,     *)
(*   - PbsLogHandler (src/src/pbs_loghandler.py): open_file, readline,     *)
(*     process_log_line,                                                   *)
(*   - gestor.py: log_line_parser, event_type, str_to_date, parse_input,   *)
(*     detect_log_switch and the loop of main,                             *)
(*   - ReportingDBLib / BaseORMLib (src/pbs_gestor): write, the data       *)
(*     mapper, _insert and _merge_by_query over the three tables.          *)
(*                                                                         *)
(* Text is modelled structurally: a log line is the list of its ';' fields *)
(* with the fourth field already cut at its spaces into tokens, a token    *)
(* key is the list of its '.' segments, a job id is the list of its '.'    *)
(* segments.  Days are numbered 1..MaxDay; the file of day d is named d.   *)
(***************************************************************************)
EXTENDS Integers, Sequences, FiniteSets, TLC

\* ------------------------------------------------------------------------
\* Bounds of the model
\* ------------------------------------------------------------------------
MaxDay == 2
MaxLines == 2
MaxRuns == 2

Days == 1..MaxDay

\* Python's None, and the None of a list-valued attribute.
None == "None"
NoneList == <<>>

\* ------------------------------------------------------------------------
\* Log lines
\* ------------------------------------------------------------------------
\* PBS_JOB_VARS: the job variables taken from a line, per job state.
PBS_JOB_VARS ==
  [E |-> {"account", "accounting_id", "alt_id", "ctime", "eligible_time", "end",
          "etime", "exec_host", "exec_vnode", "Exit_status", "group", "jobname",
          "project", "qtime", "queue", "run_count", "session", "start", "user"},
   Q |-> {"queue"},
   S |-> {"accounting_id", "ctime", "etime", "exec_host", "exec_vnode", "group",
          "jobname", "project", "qtime", "queue", "session", "start", "user"}]

\* A token "key=value" of the fourth field; eq is FALSE for a token without '='.
Tok(key, val) == [k |-> key, eq |-> TRUE, v |-> val]
Bare(word) == [k |-> <<word>>, eq |-> FALSE, v |-> ""]

\* A line with nf ';'-separated fields (date, state, job id, tokens).
Line(n, state, jobid, tokens) == [nf |-> n, st |-> state, jid |-> jobid, toks |-> tokens]

Job0 == <<"0", "cylc-vm">>
Job1 == <<"1", "cylc-vm">>

\* The lines that the scheduler may append, by name.  Q0, S0 and E0 follow the
\* fixtures QueueEventLog, StartEventLog and EndEventLog of conftest.py (with
\* fewer resource entries); Q1 and SX are lines of a second job, A0 a start of
\* the first job with another ncpus request, SH a start on two hosts; B3,
\* B5, LR and QB are the other shapes: three fields, five fields, a license
\* record, a token without '='.  RB, RD and RM carry other keys: Resource_List
\* without a '.', keys of three segments, a key that has Resource_List as its
\* second segment, and the unknown key comment.  L3 is a license record cut
\* short, of three fields.
LineText ==
  [Q0 |-> Line(4, "Q", Job0, <<Tok(<<"queue">>, "workq\n")>>),
   S0 |-> Line(4, "S", Job0,
            <<Tok(<<"user">>, "sujata"), Tok(<<"group">>, "sujata"),
              Tok(<<"queue">>, "workq"), Tok(<<"ctime">>, "1542010810"),
              Tok(<<"start">>, "1542010810"), Tok(<<"exec_host">>, "cylc-vm/0"),
              Tok(<<"Resource_List", "ncpus">>, "1"),
              Tok(<<"Resource_List", "place">>, "pack"),
              Tok(<<"resource_assigned", "ncpus">>, "1\n")>>),
   E0 |-> Line(4, "E", Job0,
            <<Tok(<<"user">>, "sujata"), Tok(<<"group">>, "sujata"),
              Tok(<<"queue">>, "workq"), Tok(<<"ctime">>, "1542010810"),
              Tok(<<"start">>, "1542010810"), Tok(<<"exec_host">>, "cylc-vm/0"),
              Tok(<<"Resource_List", "ncpus">>, "1"),
              Tok(<<"session">>, "61461"), Tok(<<"end">>, "1542010820"),
              Tok(<<"Exit_status">>, "0"),
              Tok(<<"resources_used", "walltime">>, "00:00:11"),
              Tok(<<"run_count">>, "1\n")>>),
   Q1 |-> Line(4, "Q", Job1, <<Tok(<<"queue">>, "workq\n")>>),
   SX |-> Line(4, "S", Job1,
            <<Tok(<<"queue">>, "workq"), Tok(<<"start">>, "soon\n")>>),
   B3 |-> Line(3, "Q", Job1, <<>>),
   A0 |-> Line(4, "S", Job0,
            <<Tok(<<"Resource_List", "ncpus">>, "2"), Tok(<<"queue">>, "workq\n")>>),
   LR |-> Line(4, "L", <<"license">>, <<Bare("floating\n")>>),
   SH |-> Line(4, "S", Job1,
            <<Tok(<<"queue">>, "workq"), Tok(<<"start">>, "1542010810"),
              Tok(<<"exec_host">>, "n1/0+n2/0"),
              Tok(<<"exec_vnode">>, "(n1:ncpus=1)\n")>>),
   B5 |-> Line(5, "Q", Job1, <<Tok(<<"queue">>, "workq\n")>>),
   QB |-> Line(4, "Q", Job1, <<Tok(<<"queue">>, "workq"), Bare("held\n")>>),
   RB |-> Line(4, "S", Job1,
            <<Tok(<<"queue">>, "workq"), Tok(<<"Resource_List">>, "1\n")>>),
   RD |-> Line(4, "S", Job1,
            <<Tok(<<"queue">>, "workq"), Tok(<<"Resource_List", "mem", "max">>, "1gb"),
              Tok(<<"resources_used", "mem", "max">>, "0kb\n")>>),
   RM |-> Line(4, "S", Job1,
            <<Tok(<<"queue">>, "workq"), Tok(<<"max", "Resource_List">>, "4"),
              Tok(<<"comment">>, "held\n")>>),
   L3 |-> Line(3, "L", <<"license\n">>, <<>>)]

\* str.strip() on the values that occur.
Strip(s) ==
  CASE s = "workq\n" -> "workq"
    [] s = "1\n" -> "1"
    [] s = "soon\n" -> "soon"
    [] s = "floating\n" -> "floating"
    [] s = "(n1:ncpus=1)\n" -> "(n1:ncpus=1)"
    [] s = "held\n" -> "held"
    [] OTHER -> s

\* str.split('+') on the values that occur.
SplitPlus(s) ==
  CASE s = "n1/0+n2/0" -> <<"n1/0", "n2/0">>
    [] OTHER -> <<s>>

EmptyDict == [x \in {} |-> None]

Put(d, key, val) == [x \in (DOMAIN d) \cup {key} |-> IF x = key THEN val ELSE d[x]]

\* 'word' in key: the key contains the word (at the grain of '.' segments).
Contains(key, word) == \E i \in 1..Len(key) : key[i] = word

\* A pass that takes a key it does not know for a used resource.
ProcessVarAssigned(var, state, hasLog, acc) ==
  IF ~var.eq THEN [acc EXCEPT !.err = "LogLineError"]
  ELSE IF Len(var.k) = 1 /\ var.k[1] \in PBS_JOB_VARS[state]
       THEN [acc EXCEPT !.log_dict = Put(@, var.k[1], Strip(var.v))]
  ELSE IF Contains(var.k, "Resource_List")
       THEN IF Len(var.k) < 2 THEN [acc EXCEPT !.err = "LogLineError"]
            ELSE [acc EXCEPT !.rsrc_requested = Put(@, var.k[2], var.v)]
  ELSE IF Len(var.k) < 2 THEN [acc EXCEPT !.err = "LogLineError"]
  ELSE [acc EXCEPT !.rsrc_used = Put(@, var.k[2], var.v)]

\* One pass of the loop of process_log_line over a token.  acc.err is "" until
\* an exception is raised; hasLog tells whether self.log exists.
ProcessVar(var, state, hasLog, acc) ==
  IF ~var.eq THEN [acc EXCEPT !.err = "LogLineError"]
  ELSE IF Len(var.k) = 1 /\ var.k[1] \in PBS_JOB_VARS[state]
       THEN [acc EXCEPT !.log_dict = Put(@, var.k[1], Strip(var.v))]
  ELSE IF Contains(var.k, "Resource_List")
       THEN IF Len(var.k) < 2 THEN [acc EXCEPT !.err = "LogLineError"]
            ELSE [acc EXCEPT !.rsrc_requested = Put(@, var.k[2], var.v)]
  ELSE IF Contains(var.k, "resources_used")
       THEN IF Len(var.k) < 2 THEN [acc EXCEPT !.err = "LogLineError"]
            ELSE [acc EXCEPT !.rsrc_used = Put(@, var.k[2], var.v)]
  ELSE IF hasLog THEN acc
  ELSE [acc EXCEPT !.err = "AttributeError"]

RECURSIVE ProcessVars(_, _, _, _)
ProcessVars(toks, state, hasLog, acc) ==
  IF toks = <<>> \/ acc.err # "" THEN acc
  ELSE ProcessVars(Tail(toks), state, hasLog, ProcessVar(Head(toks), state, hasLog, acc))

\* PbsLogHandler.process_log_line.  The result carries err = "" and the three
\* dictionaries, or the exception that leaves the method: every exception is
\* caught once to be logged with self.log.exception and raised again, so a
\* handler without self.log raises AttributeError in place of it.
process_log_line(hasLog, log_msg) ==
  LET start == [err |-> "", job_state |-> log_msg.st, job_id |-> log_msg.jid,
                log_dict |-> EmptyDict, rsrc_requested |-> EmptyDict,
                rsrc_used |-> EmptyDict]
      res == IF log_msg.nf # 4 THEN [start EXCEPT !.err = "LogLineError"]
             ELSE IF log_msg.st \notin DOMAIN PBS_JOB_VARS
                  THEN [start EXCEPT !.err = "LogLineError"]
             ELSE ProcessVars(log_msg.toks, log_msg.st, hasLog, start)
  IN IF res.err # "" /\ ~hasLog THEN [res EXCEPT !.err = "AttributeError"] ELSE res

\* ------------------------------------------------------------------------
\* gestor.py: from the parsed line to the job attributes
\* ------------------------------------------------------------------------
\* A classification that takes a record without the two fields for queued.
event_type_queued(parsed_event) ==
  IF "ji_start_time" \notin DOMAIN parsed_event \/ "ji_end_time" \notin DOMAIN parsed_event
  THEN "QUEUED"
  ELSE IF parsed_event.ji_start_time # None /\ parsed_event.ji_end_time # None THEN "END"
  ELSE IF parsed_event.ji_start_time # None /\ parsed_event.ji_end_time = None THEN "START"
  ELSE IF parsed_event.ji_start_time = None /\ parsed_event.ji_end_time = None THEN "QUEUED"
  ELSE "UNKNOWN"

\* event_type: the type of event, from the start and end times.
event_type(parsed_event) ==
  IF "ji_start_time" \notin DOMAIN parsed_event \/ "ji_end_time" \notin DOMAIN parsed_event
  THEN "UNKNOWN"
  ELSE IF parsed_event.ji_start_time # None /\ parsed_event.ji_end_time # None THEN "END"
  ELSE IF parsed_event.ji_start_time # None /\ parsed_event.ji_end_time = None THEN "START"
  ELSE IF parsed_event.ji_start_time = None /\ parsed_event.ji_end_time = None THEN "QUEUED"
  ELSE "UNKNOWN"

\* attrs[...] = log_dict[key] if present and not None, else the default.
Attr(log_dict, key, default) ==
  IF key \in DOMAIN log_dict /\ log_dict[key] # None THEN log_dict[key] ELSE default

\* The resource map: "l_" + name for requested, "u_" + name for used resources
\* other than exec_host / exec_vnode.  A resource name is the pair of its
\* prefix and the name.
Resources(rsrc_requested, rsrc_used) ==
  LET lnames == {n \in DOMAIN rsrc_requested : ~(n = "" /\ rsrc_requested[n] = "")}
      unames == {n \in DOMAIN rsrc_used :
                   /\ ~(n = "" /\ rsrc_used[n] = "")
                   /\ n # "exec_host" /\ n # "exec_vnode"}
      keys == {<<"l_", n>> : n \in lnames} \cup {<<"u_", n>> : n \in unames}
  IN [key \in keys |-> IF key[1] = "l_" THEN rsrc_requested[key[2]] ELSE rsrc_used[key[2]]]

\* The exec_host / exec_vnode attribute: taken from the used resources only.
ExecList(rsrc_used, name) ==
  IF name \in DOMAIN rsrc_used /\ ~(name = "" /\ rsrc_used[name] = "")
  THEN SplitPlus(rsrc_used[name]) ELSE NoneList

\* log_line_parser: the job attributes required in the reporting database.
log_line_parser(job) ==
  LET d == job.log_dict
      attrs == [ji_exitstat |-> Attr(d, "Exit_status", None),
                ji_cr_time |-> Attr(d, "ctime", None),
                ji_quetime |-> Attr(d, "qtime", None),
                ji_eligible_time |-> Attr(d, "etime", None),
                ji_start_time |-> Attr(d, "start", None),
                ji_end_time |-> Attr(d, "end", None),
                ji_runcount |-> Attr(d, "run_count", None),
                ji_sessionid |-> Attr(d, "session", None),
                ji_jobname |-> Attr(d, "jobname", ""),
                ji_user |-> Attr(d, "user", ""),
                ji_group |-> Attr(d, "group", ""),
                ji_project |-> Attr(d, "project", ""),
                ji_queue |-> Attr(d, "queue", ""),
                ji_jobid |-> job.job_id,
                ji_sv_name |-> IF Len(job.job_id) < 2 THEN "" ELSE job.job_id[2],
                resources |-> Resources(job.rsrc_requested, job.rsrc_used),
                ji_exechost |-> ExecList(job.rsrc_used, "exec_host"),
                ji_execvnode |-> ExecList(job.rsrc_used, "exec_vnode"),
                ji_priority |-> 1]
  IN attrs @@ [event_type |-> event_type(attrs)]

\* ------------------------------------------------------------------------
\* The reporting database: tables pbsjob, pbsjobarr, pbslog
\* ------------------------------------------------------------------------
\* ReportingDBLib.CONNECTION_RETRIES
CONNECTION_RETRIES == 2

\* PbsJob.attributes, PbsJobArr.attributes, PbsLog.attributes and the p_key of
\* each table class.
PbsJob == [attributes |-> {"ji_jobid", "ji_jobname", "ji_user", "ji_group", "ji_project",
                           "ji_sv_name", "ji_queue", "ji_priority", "ji_cr_time",
                           "ji_quetime", "ji_runcount", "ji_eligible_time",
                           "ji_start_time", "ji_end_time", "ji_sessionid", "ji_exitstat",
                           "ji_exechost", "ji_execvnode"},
           p_key |-> "ji_pbsjobidx"]
PbsJobArr == [attributes |-> {"ji_pbsjobidx", "ji_arrresource", "ji_arrvalue"},
              p_key |-> "ji_pbsjobarridx"]
PbsLog == [attributes |-> {"filename", "start", "end"}, p_key |-> "idx"]

EmptyDB == [pbsjob |-> {}, pbsjobarr |-> {}, pbslog |-> {}]

\* The value an autoincrement primary key takes on the next insert.
NextKey(table, p_key) ==
  IF table = {} THEN 1
  ELSE 1 + (CHOOSE m \in {r[p_key] : r \in table} : \A r \in table : r[p_key] <= m)

\* A filter that selects every row of the table.
FilterAll(table, query_dict) == table

\* The rows that filter_by(**query_dict) selects.
FilterBy(table, query_dict) ==
  {r \in table : \A key \in DOMAIN query_dict : r[key] = query_dict[key]}

\* A merge that never looks for the row: the instance is always added.
add_instance(table, obj) ==
  [table |-> table \cup {obj.instance @@ (obj.class.p_key :> NextKey(table, obj.class.p_key))},
   instance |-> obj.instance @@ (obj.class.p_key :> NextKey(table, obj.class.p_key))]

\* A merge that leaves the row its own time stamp where the instance has None.
merge_non_null(table, obj) ==
  LET found == FilterBy(table, obj.query_dict)
      res == CHOOSE r \in found : TRUE
      upd == [a \in DOMAIN res |->
                IF a \in {"ji_cr_time", "ji_quetime", "ji_start_time", "ji_end_time"}
                     /\ obj.instance[a] = None
                THEN res[a]
                ELSE IF a \in obj.class.attributes /\ a # obj.class.p_key
                THEN obj.instance[a] ELSE res[a]]
      new == obj.instance @@ (obj.class.p_key :> NextKey(table, obj.class.p_key))
  IN IF found = {} THEN [table |-> table \cup {new}, instance |-> new]
     ELSE [table |-> (table \ {res}) \cup {upd}, instance |-> upd]

\* A merge that adds the instance when the query finds no row and leaves the
\* row it finds as it is.
insert_if_absent(table, obj) ==
  LET found == FilterBy(table, obj.query_dict)
      res == CHOOSE r \in found : TRUE
      new == obj.instance @@ (obj.class.p_key :> NextKey(table, obj.class.p_key))
  IN IF found = {} THEN [table |-> table \cup {new}, instance |-> new]
     ELSE [table |-> table, instance |-> res]

\* BaseORMLib._merge_by_query followed by the commit: the first row that the
\* query selects takes every attribute of the instance that is not the
\* primary key; without such a row the instance is added.  The result is the
\* table and obj["instance"].
merge_by_query(table, obj) ==
  LET found == FilterBy(table, obj.query_dict)
      res == CHOOSE r \in found : TRUE
      upd == [a \in DOMAIN res |->
                IF a \in obj.class.attributes /\ a # obj.class.p_key
                THEN obj.instance[a] ELSE res[a]]
      new == obj.instance @@ (obj.class.p_key :> NextKey(table, obj.class.p_key))
  IN IF found = {} THEN [table |-> table \cup {new}, instance |-> new]
     ELSE [table |-> (table \ {res}) \cup {upd}, instance |-> upd]

\* BaseORMLib._is_session_valid: False without a session; with one, the probe
\* query gives True, or raises and drops the session when the store is
\* unreachable.
is_session_valid(session, reachable) ==
  IF session = "none" THEN [valid |-> FALSE, raised |-> FALSE, session |-> "none"]
  ELSE IF reachable THEN [valid |-> TRUE, raised |-> FALSE, session |-> session]
  ELSE [valid |-> FALSE, raised |-> TRUE, session |-> "none"]

\* BaseORMLib._reset_session: up to `retries` rounds of (probe; if not valid,
\* close and open a new session); ConnectionError when the rounds run out.
RECURSIVE reset_session(_, _, _)
reset_session(session, retries, reachable) ==
  IF retries = 0 THEN [session |-> session, out |-> "ConnectionError"]
  ELSE LET v == is_session_valid(session, reachable)
       IN IF v.raised THEN [session |-> "none", out |-> "OperationalError"]
          ELSE IF v.valid THEN [session |-> session, out |-> "ok"]
          ELSE reset_session("open", retries - 1, reachable)

\* BaseORMLib._insert, the try block: the merge and the commit.
Inserted(m, session) ==
  [table |-> m.table, instance |-> m.instance, session |-> session, out |-> "ok"]

\* BaseORMLib._insert, an exception: after _reset_session (result r) the
\* exception is raised again, or the one of _reset_session takes its place.
NotInserted(table, obj, r) ==
  [table |-> table, instance |-> obj.instance, session |-> r.session,
   out |-> IF r.out = "ok" THEN "OperationalError" ELSE r.out]

\* BaseORMLib._insert after the session was found invalid without an
\* exception and _reset_session gave r.
InsertAfterReset(table, obj, r, back) ==
  IF r.out = "ok" THEN Inserted(merge_by_query(table, obj), r.session)
  ELSE IF r.out = "ConnectionError" THEN NotInserted(table, obj, r)
  ELSE NotInserted(table, obj, reset_session(r.session, CONNECTION_RETRIES, back))

\* BaseORMLib._insert once _is_session_valid gave v.
InsertChecked(table, obj, v, back) ==
  IF v.valid THEN Inserted(merge_by_query(table, obj), v.session)
  ELSE IF v.raised
       THEN NotInserted(table, obj, reset_session(v.session, CONNECTION_RETRIES, back))
  ELSE InsertAfterReset(table, obj,
                        reset_session(v.session, CONNECTION_RETRIES, back), back)

\* BaseORMLib._insert of one merge_by_query object, in its own transaction.
\* up: the store is reachable when the insert starts; back: it is reachable
\* when _reset_session probes it.  An exception inside the try block is
\* followed by rollback and _reset_session and is raised again.
insert(table, obj, session, up, back) ==
  InsertChecked(table, obj, is_session_valid(session, up), back)

\* DATA_MAPPER: float(x) of a time stamp, then the ISO form of that UTC time.
\* float raises ValueError on anything else, the ISO form included.
IsNumber(x) == x \in {"1542010810", "1542010820"}
IsoFormat(x) ==
  CASE x = "1542010810" -> "2018-11-12T08:20:10"
    [] x = "1542010820" -> "2018-11-12T08:20:20"
DATA_MAPPER == <<"ji_cr_time", "ji_quetime", "ji_start_time", "ji_end_time">>

\* ReportingDBLib._save_job_info_data_mapper: the mapper is applied to the
\* caller's dictionary itself, attribute by attribute, until one raises.
RECURSIVE data_mapper(_, _)
data_mapper(data, todo) ==
  IF todo = <<>> THEN [data |-> data, out |-> "ok"]
  ELSE LET a == Head(todo)
       IN IF a \notin DOMAIN data THEN [data |-> data, out |-> "KeyError"]
          ELSE IF data[a] = None THEN data_mapper(data, Tail(todo))
          ELSE IF ~IsNumber(data[a]) THEN [data |-> data, out |-> "ValueError"]
          ELSE data_mapper([data EXCEPT ![a] = IsoFormat(data[a])], Tail(todo))

save_job_info_data_mapper(data) == data_mapper(data, DATA_MAPPER)

\* ReportingDBLib._insert_pbs_job_data: merge the job by its ji_jobid.
insert_pbs_job_data(store, data, session, up, back) ==
  insert(store.pbsjob,
         [instance |-> [a \in PbsJob.attributes |-> data[a]],
          class |-> PbsJob,
          query_dict |-> [ji_jobid |-> data.ji_jobid]],
         session, up, back)

\* ReportingDBLib._insert_pbs_job_arr_data: merge one resource of the job by
\* the triple (ji_pbsjobidx, ji_arrresource, ji_arrvalue).
ArrRow(data, ji_arr_resource, ji_arr_value) ==
  [ji_pbsjobidx |-> data.ji_pbsjobidx,
   ji_arrresource |-> ji_arr_resource,
   ji_arrvalue |-> ji_arr_value]

\* A merge object that looks a resource row up by job and resource name only.
ArrObjectByName(row) ==
  [instance |-> row, class |-> PbsJobArr,
   query_dict |-> [ji_pbsjobidx |-> row.ji_pbsjobidx,
                   ji_arrresource |-> row.ji_arrresource]]

\* _insert_pbs_job_arr_data, lines 143-154: the merge object of a resource
\* row; the query is the whole triple.
ArrObject(row) == [instance |-> row, class |-> PbsJobArr, query_dict |-> row]
insert_pbs_job_arr_data(table, data, ji_arr_resource, ji_arr_value, session, up, back) ==
  insert(table, ArrObject(ArrRow(data, ji_arr_resource, ji_arr_value)), session, up, back)

\* The loop of _save_job_info over the resources in `todo`, each one its own
\* insert; all of them find the store reachable.
RECURSIVE insert_resources(_, _, _, _)
InsertResource(table, data, todo, session, key) ==
  insert_resources(insert_pbs_job_arr_data(table, data, key, data.resources[key],
                                           session, TRUE, TRUE).table,
                   data, todo \ {key}, session)
insert_resources(table, data, todo, session) ==
  IF todo = {} THEN table
  ELSE InsertResource(table, data, todo, session, CHOOSE k \in todo : TRUE)

\* How far a job_info write gets before the connection is found dead:
\* job: the insert of the job row finds the store reachable;
\* stored: the resources whose insert does; back: the store is reachable
\* again when the session is reset.  The write goes through when job holds
\* and stored has every resource.
Fates(data) ==
  LET keys == IF "resources" \in DOMAIN data THEN DOMAIN data.resources ELSE {}
  IN [job : {TRUE}, stored : SUBSET keys, back : BOOLEAN]
     \cup [job : {FALSE}, stored : {{}}, back : BOOLEAN]
Lucky(data) ==
  [job |-> TRUE, back |-> TRUE,
   stored |-> IF "resources" \in DOMAIN data THEN DOMAIN data.resources ELSE {}]

\* The result of a write: the store, the caller's dictionary as the call
\* leaves it, the session and the outcome ("ok" or the exception).
Written(store, data, session, out) ==
  [db |-> store, data |-> data, session |-> session, out |-> out]

\* _save_job_info, lines 182-185: with the job row merged (result j), the
\* resources of data are merged one by one.
SaveResources(store, data, j, fate) ==
  IF "resources" \notin DOMAIN data
  THEN Written([store EXCEPT !.pbsjob = j.table], data, j.session, "ok")
  ELSE IF fate.stored = DOMAIN data.resources
  THEN Written([store EXCEPT !.pbsjob = j.table,
                             !.pbsjobarr = insert_resources(@, data, fate.stored,
                                                            j.session)],
               data, j.session, "ok")
  ELSE Written([store EXCEPT !.pbsjob = j.table,
                             !.pbsjobarr = insert_resources(@, data, fate.stored,
                                                            j.session)],
               data, IF fate.back THEN "open" ELSE "none", "OperationalError")

\* _save_job_info, lines 181-183: after the insert of the job row (result j).
SaveJob(store, data, j, fate) ==
  IF j.out # "ok" THEN Written(store, data, j.session, j.out)
  ELSE IF "resources" \in DOMAIN data
  THEN SaveResources(store, Put(data, "ji_pbsjobidx", j.instance.ji_pbsjobidx), j, fate)
  ELSE SaveResources(store, data, j, fate)

\* _save_job_info, lines 179-181: after the data mapper (result m).
SaveMapped(store, m, session, fate) ==
  IF m.out # "ok" THEN Written(store, m.data, session, m.out)
  ELSE IF ~(PbsJob.attributes \subseteq DOMAIN m.data)
  THEN Written(store, m.data, session, "KeyError")
  ELSE SaveJob(store, m.data,
               insert_pbs_job_data(store, m.data, session, fate.job, fate.back), fate)

\* ReportingDBLib._save_job_info.
save_job_info(store, data, session, fate) ==
  SaveMapped(store, save_job_info_data_mapper(data), session, fate)

\* _save_log_info, line 211: after the insert of the checkpoint (result r).
SavedLog(store, data, r) ==
  Written([store EXCEPT !.pbslog = r.table], data, r.session, r.out)

\* A checkpoint merged by its start in place of its filename.
save_log_info_by_start(store, data, session, up, back) ==
  IF ~(PbsLog.attributes \subseteq DOMAIN data)
  THEN Written(store, data, session, "KeyError")
  ELSE SavedLog(store, data,
                insert(store.pbslog,
                       [instance |-> [a \in PbsLog.attributes |-> data[a]],
                        class |-> PbsLog,
                        query_dict |-> [start |-> data.start]],
                       session, up, back))

\* ReportingDBLib._save_log_info: merge the checkpoint by its filename.
save_log_info(store, data, session, up, back) ==
  IF ~(PbsLog.attributes \subseteq DOMAIN data)
  THEN Written(store, data, session, "KeyError")
  ELSE SavedLog(store, data,
                insert(store.pbslog,
                       [instance |-> [a \in PbsLog.attributes |-> data[a]],
                        class |-> PbsLog,
                        query_dict |-> [filename |-> data.filename]],
                       session, up, back))

\* A write that looks at the key before it looks at the data.
write_key_first(store, key, data, isdict, session, fate) ==
  IF key \notin {"job_info", "log_info"} THEN Written(store, data, session, "KeyError")
  ELSE IF ~isdict THEN Written(store, data, session, "ValueError")
  ELSE IF key = "job_info" THEN save_job_info(store, data, session, fate)
  ELSE save_log_info(store, data, session, fate.job, fate.back)

\* ReportingDBLib.write.  isdict: data is a dictionary.
write(store, key, data, isdict, session, fate) ==
  IF ~isdict THEN Written(store, data, session, "ValueError")
  ELSE IF key = "job_info" THEN save_job_info(store, data, session, fate)
  ELSE IF key = "log_info" THEN save_log_info(store, data, session, fate.job, fate.back)
  ELSE Written(store, data, session, "KeyError")

\* The first row in ascending order of filename.
firstscan(store) ==
  IF store.pbslog = {} THEN [firstlog |-> TRUE, filename |-> 0]
  ELSE LET res == CHOOSE r \in store.pbslog :
                    \A o \in store.pbslog : r.filename <= o.filename
       IN [firstlog |-> FALSE, filename |-> res.filename]

\* ReportingDBLib.lastscan: the sentinel 'firstlog' for an empty pbslog table,
\* else the filename of the first row in descending order of filename.
lastscan(store) ==
  IF store.pbslog = {} THEN [firstlog |-> TRUE, filename |-> 0]
  ELSE LET res == CHOOSE r \in store.pbslog :
                    \A o \in store.pbslog : o.filename <= r.filename
       IN [firstlog |-> FALSE, filename |-> res.filename]

\* ------------------------------------------------------------------------
\* The daemon: state
\* ------------------------------------------------------------------------
VARIABLES
  now,        \* the wall-clock day
  present,    \* the days whose accounting file exists
  files,      \* files[d]: the lines of the file of day d, by name
  db,         \* the reporting database
  pc,         \* where main stands: idle (no run), next, open, loop, reopen, eof, after
  handlers,   \* pbs_log_handlers: each [log_file_name, run, log (self.log exists)]
  hi,         \* the index in handlers of the handler of the for loop
  fh,         \* file_handle of readline: [day, pos], day 0 for None
  count,      \* count of main
  logdate,    \* logdate of main
  start,      \* start of main
  exit,       \* how the last run ended: none (not ended), normal, or the exception
  runs,       \* the number of runs started
  args,       \* the run's arguments (symbolic from? today?), the dates they were
              \* resolved to, and the day the run before failed on
  rd,         \* rd[d]: how many lines of the file of day d this run has read
  cks,        \* the days this run has written a checkpoint for
  last,       \* the last line main took, what became of it, the checkpoint written
  call        \* the last direct call of ReportingDBLib.write, or of a parsing
              \* function, and what it gave

vars == <<now, present, files, db, pc, handlers, hi, fh, count, logdate, start, exit,
          runs, args, rd, cks, last, call>>

\* The lines the scheduler writes in this model.
LogLines == {"Q0", "E0", "SX", "B3", "LR", "L3"}

NoHandle == [day |-> 0, pos |-> 0]
NoLine == [op |-> "none", day |-> 0, pos |-> 0, ck |-> 0, merged |-> FALSE]
NoArgs == [from |-> "", till |-> "", fromdate |-> 0, tilldate |-> 0, failed |-> 0]

\* No call of write yet.  A call notes: n, the number of calls so far; key;
\* data, the caller's dictionary as the call left it; before, the store before
\* the call; out, the outcome; session, the session it left; lucky, the store was reachable throughout;
\* again, the call was given the dictionary object of the call before, whose
\* outcome was first; isdict, the data was a dictionary.
NoCall == [n |-> 0, key |-> "", data |-> EmptyDict, before |-> EmptyDB, out |-> "none",
           session |-> "open", lucky |-> TRUE, again |-> FALSE, first |-> "none",
           isdict |-> TRUE]

\* The number of lines in the accounting directory.
RECURSIVE TotalLines(_)
TotalLines(d) == IF d = 0 THEN 0 ELSE Len(files[d]) + TotalLines(d - 1)

\* The arguments -f and -t: absent, a symbolic date, or a date.
Arg(kind, day) == [kind |-> kind, day |-> day]
Arguments ==
  {Arg(k, 0) : k \in {"absent", "today", "lastscan", "firstlog"}}
  \cup {Arg("date", d) : d \in Days}

\* ------------------------------------------------------------------------
\* PbsLogHandler
\* ------------------------------------------------------------------------
\* PbsLogHandler.__init__: the default day "today" gives a handler in mode
\* today for the current day, a date gives one in mode manual; without the
\* file the mode is none and self.log is never set.
PbsLogHandler(day) ==
  LET name == IF day.kind = "today" THEN now ELSE day.day
      mode == IF day.kind = "today" THEN "today" ELSE "manual"
  IN IF name \in present
     THEN [log_file_name |-> name, run |-> mode, log |-> TRUE]
     ELSE [log_file_name |-> name, run |-> "none", log |-> FALSE]

\* PbsLogHandler.get_first_log: sorted(os.listdir(path))[1]; day 0 stands for
\* the IndexError of a directory with fewer than two entries.
get_first_log ==
  IF Cardinality(present) < 2 THEN 0
  ELSE CHOOSE d \in present : Cardinality({e \in present : e < d}) = 1

\* An update of the file name that every handler takes, whatever its mode.
UpdatedAny(h) ==
  IF now # h.log_file_name THEN [h EXCEPT !.log_file_name = now] ELSE h

\* An update of the file name that only a handler in mode today or none takes.
UpdatedLive(h) ==
  IF now # h.log_file_name /\ h.run \notin {"manual", "manualwaiting"}
  THEN [h EXCEPT !.log_file_name = now] ELSE h

\* is_update_needed and update_log_file_name, as open_file and readline use
\* them: a handler that is not in mode manual takes the current day's name.
Updated(h) ==
  IF now # h.log_file_name /\ h.run # "manual"
  THEN [h EXCEPT !.log_file_name = now] ELSE h

\* One round of the loop of open_file.  out: "opened", "none" (mode manual
\* gives up and returns None), "sleep" (try again after the sleep) or
\* "AttributeError" (self.log.error without self.log).
open_file(h0) ==
  LET h == Updated(h0)
  IN IF h.log_file_name \in present
     THEN [h |-> h, out |-> "opened", fh |-> [day |-> h.log_file_name, pos |-> 0]]
     ELSE IF ~h.log THEN [h |-> h, out |-> "AttributeError", fh |-> NoHandle]
     ELSE IF h.run = "manual" THEN [h |-> h, out |-> "none", fh |-> NoHandle]
     ELSE [h |-> h, out |-> "sleep", fh |-> NoHandle]

\* ------------------------------------------------------------------------
\* gestor.py: the dates of a run
\* ------------------------------------------------------------------------
\* A resolution of 'lastscan' to the day of the last checkpoint itself.
str_to_date_same(fromday) ==
  IF fromday.kind \in {"absent", "today"} THEN now
  ELSE IF fromday.kind = "lastscan"
       THEN IF lastscan(db).firstlog THEN get_first_log ELSE lastscan(db).filename
  ELSE IF fromday.kind = "firstlog" THEN get_first_log
  ELSE fromday.day

\* none_to_today then str_to_date: the date of an argument; day 0 stands for
\* the IndexError of get_first_log.
str_to_date(fromday) ==
  IF fromday.kind \in {"absent", "today"} THEN now
  ELSE IF fromday.kind = "lastscan"
       THEN IF lastscan(db).firstlog THEN get_first_log ELSE lastscan(db).filename + 1
  ELSE IF fromday.kind = "firstlog" THEN get_first_log
  ELSE fromday.day

\* The dates from start_date up to the day before end_date.
date_range_open(start_date, end_date) ==
  [i \in 1..(end_date - start_date) |-> start_date + (i - 1)]

\* date_range: the dates from start_date to end_date, inclusively.
date_range(start_date, end_date) ==
  [i \in 1..(end_date - start_date + 1) |-> start_date + (i - 1)]

\* parse_input, given the two dates: the list of log handlers.
parse_input(fromdate, tilldate) ==
  IF fromdate = tilldate THEN <<PbsLogHandler(Arg("date", fromdate))>>
  ELSE LET lo == IF fromdate > tilldate THEN tilldate ELSE fromdate
           up == IF fromdate > tilldate THEN fromdate ELSE tilldate
           dates == date_range(lo, up)
       IN SelectSeq([i \in 1..Len(dates) |-> PbsLogHandler(Arg("date", dates[i]))],
                    LAMBDA h : h.run # "none")

\* ------------------------------------------------------------------------
\* The daemon: main
\* ------------------------------------------------------------------------
Init ==
  /\ now = 1 /\ present = {} /\ files = [d \in Days |-> <<>>]
  /\ db = EmptyDB
  /\ pc = "idle" /\ handlers = <<>> /\ hi = 0 /\ fh = NoHandle
  /\ count = 0 /\ logdate = 0 /\ start = 0 /\ exit = "none"
  /\ runs = 0 /\ args = NoArgs /\ rd = [d \in Days |-> 0] /\ cks = {} /\ last = NoLine
  /\ call = NoCall

\* The exceptions that end a run.
Failures == {"OperationalError", "ConnectionError", "ValueError", "KeyError",
             "AttributeError", "IndexError"}

\* The run ends: the end of main, or sys.exit / the traceback of an exception.
End(cause) ==
  /\ pc' = "idle" /\ exit' = cause
  /\ handlers' = <<>> /\ hi' = 0 /\ fh' = NoHandle
  /\ count' = 0 /\ logdate' = 0 /\ start' = 0

\* The connection fate of a log_info write: one insert.
LogFate(up) == [job |-> up, stored |-> {}, back |-> up]

\* What main notes of a line of the file behind handle f (already advanced).
Event(op, f, ck, merged) ==
  [op |-> op, day |-> f.day, pos |-> f.pos, ck |-> ck, merged |-> merged]

\* main, lines 340-349: a run that has connected to the database builds its
\* handlers.  (A run that cannot connect exits at once and changes nothing.)
StartRun(fromday, tillday) ==
  /\ pc = "idle" /\ runs < MaxRuns
  /\ runs' = runs + 1
  /\ args' = [from |-> IF fromday.kind \in {"lastscan", "firstlog"} THEN fromday.kind ELSE "",
              till |-> IF tillday.kind \in {"absent", "today"} THEN "today" ELSE "",
              fromdate |-> str_to_date(fromday), tilldate |-> str_to_date(tillday),
              failed |-> IF exit \in Failures THEN last.day ELSE 0]
  /\ rd' = [d \in Days |-> 0] /\ cks' = {} /\ last' = NoLine
  /\ LET fromdate == str_to_date(fromday)
         tilldate == str_to_date(tillday)
     IN IF fromdate = 0 \/ tilldate = 0 THEN End("IndexError")
        ELSE /\ handlers' = parse_input(fromdate, tilldate)
             /\ hi' = 0 /\ pc' = "next" /\ exit' = "none" /\ fh' = NoHandle
             /\ count' = 0 /\ logdate' = 0 /\ start' = 0
  /\ UNCHANGED <<now, present, files, db, call>>

\* main, lines 350-353 and 385: the for loop takes the next handler, or ends.
NextHandler ==
  /\ pc = "next"
  /\ IF hi = Len(handlers) THEN End("normal")
     ELSE /\ hi' = hi + 1 /\ start' = now /\ count' = 0
          /\ logdate' = handlers[hi + 1].log_file_name
          /\ pc' = "open"
          /\ UNCHANGED <<handlers, fh, exit>>
  /\ UNCHANGED <<now, present, files, db, runs, args, rd, cks, last, call>>

\* readline, line 163: a round of the first open_file.
OpenStep ==
  /\ pc = "open"
  /\ LET o == open_file(handlers[hi])
     IN IF o.out = "AttributeError"
        THEN End("AttributeError") /\ last' = Event("fail", NoHandle, 0, FALSE)
        ELSE /\ handlers' = [handlers EXCEPT ![hi] = o.h]
             /\ fh' = o.fh
             /\ pc' = CASE o.out = "opened" -> "loop"
                        [] o.out = "none" -> "after"
                        [] OTHER -> "open"
             /\ UNCHANGED <<hi, count, logdate, start, exit, last>>
  /\ UNCHANGED <<now, present, files, db, runs, args, rd, cks, call>>

\* A loop of main that counts every line it took.
GoOnCounting(h, f, sw, n) ==
  /\ handlers' = [handlers EXCEPT ![hi] = h]
  /\ fh' = f /\ pc' = "loop" /\ count' = count + 1
  /\ start' = (IF sw THEN now ELSE start)
  /\ logdate' = (IF sw THEN h.log_file_name ELSE logdate)
  /\ UNCHANGED <<hi, exit>>

\* The loop of main goes on to the next line with `n` lines counted; sw: the
\* handler was found to have switched files.
GoOn(h, f, sw, n) ==
  /\ handlers' = [handlers EXCEPT ![hi] = h]
  /\ fh' = f /\ pc' = "loop" /\ count' = n
  /\ start' = (IF sw THEN now ELSE start)
  /\ logdate' = (IF sw THEN h.log_file_name ELSE logdate)
  /\ UNCHANGED <<hi, exit>>

\* main, lines 368-369: the outcome w of the job_info write.
Stored(h, f, sw, store, w) ==
  IF w.out = "ok"
  THEN /\ GoOn(h, f, sw, (IF sw THEN 0 ELSE count) + 1) /\ db' = w.db
       /\ last' = Event("job", f, IF sw THEN logdate ELSE 0,
                        FilterBy(store.pbsjob, [ji_jobid |-> w.data.ji_jobid]) # {})
  ELSE /\ End(w.out) /\ db' = w.db
       /\ last' = Event("fail", f, IF sw THEN logdate ELSE 0, FALSE)

\* main, lines 363-368: build the job attributes and write them.
Store(h, f, sw, store, data) ==
  \E fate \in Fates(data) :
    Stored(h, f, sw, store, write(store, "job_info", data, TRUE, "open", fate))

\* main, lines 358-362: the parsed line p, or the exception of the parser.
Process(h, f, sw, store, p) ==
  /\ cks' = (IF sw THEN cks \cup {logdate} ELSE cks)
  /\ IF p.err = "LogLineError"
     THEN /\ GoOn(h, f, sw, IF sw THEN 0 ELSE count) /\ db' = store
          /\ last' = Event("reject", f, IF sw THEN logdate ELSE 0, FALSE)
     ELSE IF p.err # ""
     THEN /\ End(p.err) /\ db' = store
          /\ last' = Event("fail", f, IF sw THEN logdate ELSE 0, FALSE)
     ELSE Store(h, f, sw, store, log_line_parser(p))

\* detect_log_switch, lines 310-320: the outcome w of the checkpoint write.
Switched(h, f, name, w) ==
  IF w.out # "ok"
  THEN /\ End(w.out) /\ db' = db /\ cks' = cks
       /\ last' = Event("fail", f, 0, FALSE)
  ELSE Process(h, f, TRUE, w.db, process_log_line(h.log, LineText[name]))

\* A detect_log_switch that never finds the handler switched.
LogSwitchNever(h) == FALSE

\* detect_log_switch: the file name the handler reads differs from logdate.
LogSwitch(h) == h.run # "manual" /\ h.log_file_name # logdate

\* A checkpoint named after the file the handler has just gone over to.
CheckpointOfNewFile(h) == h.log_file_name

\* detect_log_switch, line 314: the checkpoint is for logdate, the day that
\* main tracked until now.
CheckpointDay(h) == logdate

\* detect_log_switch and the body of the loop of main for the line `name`
\* that readline yields from handle f.
Deliver(h, f, name) ==
  IF LogSwitch(h)
  THEN \E up \in BOOLEAN :
         Switched(h, f, name,
                  write(db, "log_info",
                        [start |-> start, end |-> now, filename |-> CheckpointDay(h)],
                        TRUE, "open", LogFate(up)))
  ELSE Process(h, f, FALSE, db, process_log_line(h.log, LineText[name]))

\* A readline that yields every line it reads.
YieldedAlways(name) == TRUE

\* readline, line 188: the line is yielded unless it has exactly four fields
\* and the second is 'L'.
Yielded(name) == ~(LineText[name].nf = 4 /\ LineText[name].st = "L")

\* readline, lines 171-191: read a line from handle f; swallow an L record,
\* yield another line to main, or find the end of the file.
Read(h, f) ==
  IF f.pos < Len(files[f.day])
  THEN LET name == files[f.day][f.pos + 1]
           f1 == [f EXCEPT !.pos = @ + 1]
       IN /\ rd' = [rd EXCEPT ![f.day] = f1.pos]
          /\ IF ~Yielded(name)
             THEN /\ UNCHANGED <<db, cks>>
                  /\ IF h.log
                     THEN /\ handlers' = [handlers EXCEPT ![hi] = h]
                          /\ fh' = f1 /\ pc' = "loop"
                          /\ last' = Event("swallow", f1, 0, FALSE)
                          /\ UNCHANGED <<hi, count, logdate, start, exit>>
                     ELSE End("AttributeError") /\ last' = Event("fail", f1, 0, FALSE)
             ELSE Deliver(h, f1, name)
  ELSE /\ handlers' = [handlers EXCEPT ![hi] = h]
       /\ fh' = f /\ pc' = "eof"
       /\ UNCHANGED <<hi, count, logdate, start, exit, db, rd, cks, last>>

\* readline, lines 166-170: after a change of day a handler that is not in
\* mode manual closes its file and opens the file of the new day, sleeping
\* while that file does not exist; then it reads.
Reopen(h) ==
  LET o == open_file(h)
  IN IF o.out = "opened" THEN Read(o.h, o.fh)
     ELSE IF o.out = "AttributeError"
     THEN /\ End("AttributeError") /\ last' = Event("fail", NoHandle, 0, FALSE)
          /\ UNCHANGED <<db, rd, cks>>
     ELSE /\ handlers' = [handlers EXCEPT ![hi] = o.h]
          /\ fh' = NoHandle /\ pc' = "reopen"
          /\ UNCHANGED <<hi, count, logdate, start, exit, db, rd, cks, last>>

\* One pass of the loop of readline, with the body of main's loop when a line
\* is yielded.
LoopStep ==
  /\ pc = "loop"
  /\ LET h == handlers[hi]
     IN IF now # h.log_file_name /\ h.run # "manual" THEN Reopen(h) ELSE Read(h, fh)
  /\ UNCHANGED <<now, present, files, runs, args, call>>

\* A further round of open_file inside the loop of readline.
ReopenStep ==
  /\ pc = "reopen"
  /\ Reopen(handlers[hi])
  /\ UNCHANGED <<now, present, files, runs, args, call>>

\* readline, lines 175-187: at the end of the file of the current day the
\* handler sleeps and goes on (mode manual becomes manualwaiting); at the end
\* of another day's file the generator ends.
EofStep ==
  /\ pc = "eof"
  /\ LET h == handlers[hi]
     IN IF h.log_file_name = now
        THEN /\ handlers' = [handlers EXCEPT
                  ![hi].run = IF @ = "manual" THEN "manualwaiting" ELSE @]
             /\ pc' = "loop"
             /\ UNCHANGED <<hi, fh, count, logdate, start, exit, last>>
        ELSE IF h.log
        THEN /\ pc' = "after" /\ fh' = NoHandle
             /\ UNCHANGED <<handlers, hi, count, logdate, start, exit, last>>
        ELSE End("AttributeError") /\ last' = Event("fail", fh, 0, FALSE)
  /\ UNCHANGED <<now, present, files, db, runs, args, rd, cks, call>>

\* A handoff that appends a handler for the first day in place of today.
HandoffToFirst(h) ==
  /\ handlers' = (IF /\ h.log_file_name = handlers[Len(handlers)].log_file_name
                     /\ h.log_file_name # now
                  THEN Append(handlers, PbsLogHandler(Arg("date", 1)))
                  ELSE handlers)
  /\ pc' = "next"
  /\ UNCHANGED <<hi, fh, count, logdate, start, exit>>

\* main, lines 377-384: after the last handler of a past day, a handler for
\* today is appended.
Handoff(h) ==
  /\ handlers' = (IF /\ h.log_file_name = handlers[Len(handlers)].log_file_name
                     /\ h.log_file_name # now
                  THEN Append(handlers, PbsLogHandler(Arg("today", 0)))
                  ELSE handlers)
  /\ pc' = "next"
  /\ UNCHANGED <<hi, fh, count, logdate, start, exit>>

\* main, lines 370-376: the outcome w of the final checkpoint write.
Finished(h, w) ==
  IF w.out # "ok"
  THEN /\ End(w.out) /\ UNCHANGED <<db, cks>>
       /\ last' = Event("fail", NoHandle, 0, FALSE)
  ELSE /\ db' = w.db /\ cks' = cks \cup {logdate}
       /\ last' = Event("final", NoHandle, logdate, FALSE)
       /\ Handoff(h)

\* main, lines 370-384: the final checkpoint of a handler that processed a
\* line, then a handler for today after the last handler of the past.
AfterStep ==
  /\ pc = "after"
  /\ IF count > 0
     THEN \E up \in BOOLEAN :
            Finished(handlers[hi],
                     write(db, "log_info",
                           [start |-> start, end |-> now, filename |-> logdate],
                           TRUE, "open", LogFate(up)))
     ELSE Handoff(handlers[hi]) /\ UNCHANGED <<db, cks, last>>
  /\ UNCHANGED <<now, present, files, runs, args, rd, call>>

\* ------------------------------------------------------------------------
\* The environment: the clock and the scheduler writing the accounting logs
\* ------------------------------------------------------------------------
Tick ==
  /\ now < MaxDay
  /\ now' = now + 1
  /\ UNCHANGED <<present, files, db, pc, handlers, hi, fh, count, logdate, start, exit,
                 runs, args, rd, cks, last, call>>

CreateFile ==
  /\ now \notin present
  /\ present' = present \cup {now}
  /\ UNCHANGED <<now, files, db, pc, handlers, hi, fh, count, logdate, start, exit,
                 runs, args, rd, cks, last, call>>

AppendLine(name) ==
  /\ TotalLines(MaxDay) < MaxLines
  /\ files' = [files EXCEPT ![now] = Append(@, name)]
  /\ present' = present \cup {now}
  /\ UNCHANGED <<now, db, pc, handlers, hi, fh, count, logdate, start, exit,
                 runs, args, rd, cks, last, call>>

Next ==
  \/ \E fromday \in Arguments, tillday \in Arguments : StartRun(fromday, tillday)
  \/ NextHandler
  \/ OpenStep
  \/ LoopStep
  \/ ReopenStep
  \/ EofStep
  \/ AfterStep
  \/ Tick
  \/ CreateFile
  \/ \E name \in LogLines : AppendLine(name)

Spec == Init /\ [][Next]_vars

\* ------------------------------------------------------------------------
\* The store on its own: a client calling ReportingDBLib.write
\* ------------------------------------------------------------------------
MaxWrites == 2

\* The lines whose job records the client writes.
StoreLines == {"Q0", "S0", "E0", "A0", "Q1", "SX"}

\* The job record of a line: process_log_line, then log_line_parser.
Record(name) == log_line_parser(process_log_line(TRUE, LineText[name]))

\* The call is noted and the store is what the call (result w) left.
Noted(key, w, good, again, isdict) ==
  /\ db' = w.db
  /\ call' = [n |-> call.n + 1, key |-> key, data |-> w.data, before |-> db,
              out |-> w.out, session |-> w.session, lucky |-> good,
              again |-> again, first |-> call.out, isdict |-> isdict]
  /\ UNCHANGED <<now, present, files, pc, handlers, hi, fh, count, logdate, start, exit,
                 runs, args, rd, cks, last>>

\* write("job_info", r) with the job record r of a line.
WriteJob(name) ==
  /\ call.n < MaxWrites
  /\ \E fate \in Fates(Record(name)) :
       Noted("job_info",
             write(db, "job_info", Record(name), TRUE, call.session, fate),
             fate = Lucky(Record(name)), FALSE, TRUE)

\* write("job_info", r) once more with the dictionary object r of the call
\* before.
WriteAgain ==
  /\ call.n > 0 /\ call.n < MaxWrites /\ call.key = "job_info"
  /\ \E fate \in Fates(call.data) :
       Noted("job_info",
             write(db, "job_info", call.data, TRUE, call.session, fate),
             fate = Lucky(call.data), TRUE, TRUE)

\* write("log_info", {start, end, filename}).
WriteLog(day, st, en) ==
  /\ call.n < MaxWrites
  /\ \E up \in BOOLEAN :
       Noted("log_info",
             write(db, "log_info", [start |-> st, end |-> en, filename |-> day],
                   TRUE, call.session, LogFate(up)),
             up, FALSE, TRUE)

\* write with data that is no dictionary, or with a key that is not configured.
WriteOther(key, isdict) ==
  /\ call.n < MaxWrites
  /\ ~isdict \/ key = "other"
  /\ Noted(key, write(db, key, EmptyDict, isdict, call.session, LogFate(TRUE)),
           TRUE, FALSE, isdict)

StoreNext ==
  \/ \E name \in StoreLines : WriteJob(name)
  \/ WriteAgain
  \/ \E day \in Days, st \in Days, en \in Days : WriteLog(day, st, en)
  \/ \E key \in {"job_info", "log_info", "other"}, isdict \in BOOLEAN :
       WriteOther(key, isdict)

StoreSpec == Init /\ [][StoreNext]_vars

\* ------------------------------------------------------------------------
\* The daemon tailing today's log with the store reachable
\* ------------------------------------------------------------------------
\* The well-formed job lines the scheduler appends.
LiveLines == {"Q0", "E0"}

\* No write of the step finds the connection dead.
StoreUp == exit' \notin {"OperationalError", "ConnectionError"}

\* The daemon is started once, without arguments: from today till today.
LiveStart == runs = 0 /\ StartRun(Arg("absent", 0), Arg("absent", 0))
LiveLoop == LoopStep /\ StoreUp
LiveReopen == ReopenStep /\ StoreUp
LiveAfter == AfterStep /\ StoreUp

LiveNext ==
  \/ LiveStart
  \/ NextHandler
  \/ OpenStep
  \/ LiveLoop
  \/ LiveReopen
  \/ EofStep
  \/ LiveAfter
  \/ Tick
  \/ CreateFile
  \/ \E name \in LiveLines : AppendLine(name)

\* What a pass of the loop of readline does to pc and rd, read off the state:
\* on the file it has open the handler takes the next line or finds the end;
\* after a change of day it goes over to the file of the new day, if there is
\* one, and takes its first line or finds its end.
StaysOnFile == ~(now # handlers[hi].log_file_name /\ handlers[hi].run # "manual")
TakesLine ==
  /\ pc = "loop" /\ StaysOnFile /\ fh.pos < Len(files[fh.day])
  /\ rd' = [rd EXCEPT ![fh.day] = fh.pos + 1]
FindsEnd ==
  /\ pc = "loop" /\ StaysOnFile /\ fh.pos = Len(files[fh.day])
  /\ pc' = "eof"
MovesToLine ==
  /\ pc \in {"loop", "reopen"} /\ ~StaysOnFile /\ now \in present
  /\ files[now] # <<>>
  /\ rd' = [rd EXCEPT ![now] = 1]
MovesToEnd ==
  /\ pc \in {"loop", "reopen"} /\ ~StaysOnFile /\ now \in present
  /\ files[now] = <<>>
  /\ pc' = "eof"

\* The final checkpoint is written and the for loop of main goes on.
Finishes == pc = "after" /\ pc' = "next"

\* A running process goes on: the loops of main, readline and open_file sleep
\* and continue (readline lines 165-191, open_file lines 227-240), so a step
\* of the daemon that stays possible is taken.  The clock and the scheduler
\* owe the daemon nothing.
LiveSpec ==
  /\ Init /\ [][LiveNext]_vars
  /\ WF_vars(NextHandler) /\ WF_vars(OpenStep) /\ WF_vars(EofStep)
  /\ WF_rd(TakesLine) /\ WF_rd(MovesToLine)
  /\ WF_pc(FindsEnd) /\ WF_pc(MovesToEnd) /\ WF_pc(Finishes)

\* ------------------------------------------------------------------------
\* The daemon and the life of one job
\* ------------------------------------------------------------------------
\* The scheduler writes the queue, start and end line of one job, in that
\* order, each into the file of the day it happens on.
LifeLines == <<"Q0", "S0", "E0">>

AppendNext ==
  /\ TotalLines(MaxDay) < Len(LifeLines)
  /\ files' = [files EXCEPT ![now] = Append(@, LifeLines[TotalLines(MaxDay) + 1])]
  /\ present' = present \cup {now}
  /\ UNCHANGED <<now, db, pc, handlers, hi, fh, count, logdate, start, exit,
                 runs, args, rd, cks, last, call>>

LifeNext ==
  \/ \E fromday \in Arguments, tillday \in Arguments : StartRun(fromday, tillday)
  \/ NextHandler
  \/ OpenStep
  \/ LoopStep
  \/ ReopenStep
  \/ EofStep
  \/ AfterStep
  \/ Tick
  \/ CreateFile
  \/ AppendNext

LifeSpec == Init /\ [][LifeNext]_vars

\* The number of lines this run has read from the files of the days up to d.
RECURSIVE LinesRead(_)
LinesRead(d) == IF d = 0 THEN 0 ELSE rd[d] + LinesRead(d - 1)

\* ------------------------------------------------------------------------
\* The parsing functions on their own
\* ------------------------------------------------------------------------
\* The lines a client gives to process_log_line.
ParseLines ==
  {"Q0", "S0", "E0", "Q1", "SX", "A0", "SH", "B3", "B5", "LR", "QB", "RB", "RD", "RM"}

\* The start and end of a parsed event: the field is absent, None, or a time.
Absent == "absent"
Stamps == {Absent, None, "1542010810"}
ParsedEvent(st, en) ==
  [key \in (IF st = Absent THEN {} ELSE {"ji_start_time"})
            \cup (IF en = Absent THEN {} ELSE {"ji_end_time"}) |->
     IF key = "ji_start_time" THEN st ELSE en]

\* The call of function fn with argument arg is noted with its result.
Called(fn, arg, res, out) ==
  /\ call.n < MaxWrites
  /\ call' = [call EXCEPT !.n = @ + 1, !.key = fn, !.data = [arg |-> arg, res |-> res],
                          !.out = out, !.first = call.out]
  /\ UNCHANGED <<now, present, files, db, pc, handlers, hi, fh, count, logdate, start,
                 exit, runs, args, rd, cks, last>>

\* handler.process_log_line(line), on a handler with or without self.log.
CallProcess(name, hasLog) ==
  Called("process_log_line", [line |-> name, log |-> hasLog],
         process_log_line(hasLog, LineText[name]),
         IF process_log_line(hasLog, LineText[name]).err = "" THEN "ok"
         ELSE process_log_line(hasLog, LineText[name]).err)

\* log_line_parser(handler.process_log_line(line)).
CallParser(name) ==
  /\ process_log_line(TRUE, LineText[name]).err = ""
  /\ Called("log_line_parser", name, Record(name), "ok")

\* event_type(parsed_event).
CallEventType(st, en) ==
  Called("event_type", ParsedEvent(st, en), event_type(ParsedEvent(st, en)), "ok")

ParseNext ==
  \/ \E name \in ParseLines, hasLog \in BOOLEAN : CallProcess(name, hasLog)
  \/ \E name \in ParseLines : CallParser(name)
  \/ \E st \in Stamps, en \in Stamps : CallEventType(st, en)

ParseSpec == Init /\ [][ParseNext]_vars

\* ------------------------------------------------------------------------
\* Claims
\* ------------------------------------------------------------------------
\* C1: after any sequence of job_info writes, also when lines are ingested
\* again by a run that follows a crashed one, the job table holds at most one
\* row per job id.
C1_OneRowPerJobId ==
  \A r1 \in db.pbsjob, r2 \in db.pbsjob : r1.ji_jobid = r2.ji_jobid => r1 = r2

\* A run that follows a run that failed on a line has ingested a line of a job
\* whose row was already there.
C1_Witness ==
  runs = 2 /\ args.failed # 0 /\ last.op = "job" /\ last.merged /\ db.pbsjob # {}

\* C2: whenever a checkpoint for day D is written (at a rotation or at the end
\* of a source), every line of D's file has been read and yielded by then.
C2_CheckpointAfterEof ==
  last.ck # 0 => rd[last.ck] = Len(files[last.ck])

\* C3: no content of a line ends the run: when the run ends on a line it took,
\* it is the connection to the store that failed, never the line's content.
C3_NoLineEndsRun ==
  (exit \in Failures /\ last.op = "fail" /\ last.day # 0)
    => exit \in {"OperationalError", "ConnectionError"}

\* C4: for every resolved from/till range, also one whose days have no log
\* file, the run ends up tailing today's log: it never exits normally.
C4_NeverExitsNormally == exit # "normal"

\* C6: after a run failed on a line of day D, the following run started with
\* from=lastscan (and till today) reads D's file again: it gets as far as its
\* list of handlers, and D is one of them.
C6_LastscanRereadsFailedDay ==
  (args.from = "lastscan" /\ args.till = "today" /\ args.failed # 0)
    => /\ exit # "IndexError"
       /\ (pc = "next" /\ hi = 0)
            => \E i \in 1..Len(handlers) : handlers[i].log_file_name = args.failed

\* C7: a run that fails while a line of day D is being processed has written
\* no checkpoint for D.
C7_NoCheckpointForFailedDay ==
  (exit \in Failures /\ last.op = "fail" /\ last.day # 0) => last.day \notin cks

\* The line readline yields, as process_log_line judges it.
Raises(name) == process_log_line(TRUE, LineText[name]).err = "LogLineError"

LiveTailing(d) == pc \in {"loop", "eof"} /\ fh.day = d /\ now = d
Ingested(d, i) ==
  /\ Len(files[d]) >= i /\ rd[d] >= i
  /\ \E r \in db.pbsjob : r.ji_jobid = LineText[files[d][i]].jid
C5_AppendedLineIsIngested ==
  \A d \in Days : \A i \in 1..MaxLines :
    (LiveTailing(d) /\ Len(files[d]) >= i) ~> (Ingested(d, i) \/ pc = "idle")

\* C9: the resource table holds at most one row per (job, resource name,
\* resource value), and no write removes or changes a resource row.
C9_ResourceRowsAppendOnly ==
  /\ [](\A r1 \in db.pbsjobarr, r2 \in db.pbsjobarr :
          (/\ r1.ji_pbsjobidx = r2.ji_pbsjobidx
           /\ r1.ji_arrresource = r2.ji_arrresource
           /\ r1.ji_arrvalue = r2.ji_arrvalue) => r1 = r2)
  /\ [][db.pbsjobarr \subseteq db'.pbsjobarr]_vars

\* A second job_info write went through for a job that now has two values of
\* one resource: the row of the first value was there and is still there.
C9_Witness ==
  /\ call.n = 2 /\ call.key = "job_info" /\ call.out = "ok"
  /\ call.before.pbsjobarr # {}
  /\ \E r1 \in db.pbsjobarr, r2 \in db.pbsjobarr :
       /\ r1.ji_pbsjobidx = r2.ji_pbsjobidx
       /\ r1.ji_arrresource = r2.ji_arrresource
       /\ r1.ji_arrvalue # r2.ji_arrvalue

\* C10: write('job_info', r) given the record r of a write that succeeded
\* succeeds again (the store being reachable) and leaves the store as the
\* first write left it.
C10_SameRecordTwice ==
  (call.again /\ call.first = "ok" /\ call.lucky)
    => (call.out = "ok" /\ db = call.before)

\* C11: when write('job_info', r) finds a row of r's job id, afterwards the
\* row with the same ji_pbsjobidx carries r's value in every attribute (also
\* where r has None or the empty text), and the resource rows that referred
\* to that key before are still there.
C11_MergeOverwritesRow ==
  (call.key = "job_info" /\ call.out = "ok")
    => \A old \in call.before.pbsjob :
         old.ji_jobid = call.data.ji_jobid
           => /\ \E row \in db.pbsjob :
                   /\ row.ji_pbsjobidx = old.ji_pbsjobidx
                   /\ \A a \in PbsJob.attributes : row[a] = call.data[a]
              /\ \A res \in call.before.pbsjobarr :
                   res.ji_pbsjobidx = old.ji_pbsjobidx => res \in db.pbsjobarr

\* The record of a queue line was written over the row of the job's end line,
\* which had a start time and resource rows.
C11_Witness ==
  /\ call.key = "job_info" /\ call.out = "ok" /\ call.data.ji_start_time = None
  /\ \E old \in call.before.pbsjob :
       /\ old.ji_jobid = call.data.ji_jobid /\ old.ji_start_time # None
       /\ \E res \in call.before.pbsjobarr : res.ji_pbsjobidx = old.ji_pbsjobidx

\* C12: once a run has ingested the queue, start and end line of a job, in
\* that order and from whichever days' files, the job table holds exactly one
\* row for the job, and the row carries the attributes of the end line.
C12_OneRowOfEndLine ==
  (LinesRead(MaxDay) = Len(LifeLines) /\ exit \notin Failures)
    => \E row \in db.pbsjob :
         /\ {r \in db.pbsjob : r.ji_jobid = Job0} = {row}
         /\ row.ji_start_time = IsoFormat("1542010810")
         /\ row.ji_end_time = IsoFormat("1542010820")
         /\ row.ji_exitstat = "0"
         /\ row.ji_user = "sujata" /\ row.ji_group = "sujata"
         /\ row.ji_queue = "workq"

\* A run has ingested the three lines, the first from the file of one day and
\* the last from the file of the next.
C12_Witness ==
  /\ LinesRead(MaxDay) = Len(LifeLines) /\ exit = "none"
  /\ rd[1] > 0 /\ rd[2] > 0
  /\ \E row \in db.pbsjob : row.ji_jobid = Job0 /\ row.ji_exitstat = "0"

C14_OneCheckpointPerFile ==
  /\ \A r1 \in db.pbslog, r2 \in db.pbslog : r1.filename = r2.filename => r1 = r2
  /\ (call.key = "log_info" /\ call.out = "ok")
       => /\ \E row \in db.pbslog :
               /\ row.filename = call.data.filename
               /\ row.start = call.data.start /\ row["end"] = call.data["end"]
          /\ \A old \in call.before.pbslog :
               old.filename # call.data.filename => old \in db.pbslog

\* A second checkpoint of a filename was written, with another start than
\* the first.
C14_Witness ==
  /\ call.n = 2 /\ call.key = "log_info" /\ call.out = "ok"
  /\ \E old \in call.before.pbslog :
       old.filename = call.data.filename /\ old.start # call.data.start

\* C15: a handler constructed for a date whose file does not exist has mode
\* none, opens no file (so it yields no line), and keeps the file name it was
\* constructed with.
C15_NoneSourceIsEmpty ==
  (hi > 0 /\ hi <= Len(handlers) /\ ~handlers[hi].log)
    => /\ handlers[hi].run = "none"
       /\ fh = NoHandle
       /\ handlers[hi].log_file_name = logdate

\* C16: a write that finds the connection dead while the store stays
\* unreachable fails with DatabaseError.ConnectionError (after the bounded
\* number of reconnects) and writes nothing.
C16_DeadStoreRaisesConnectionError ==
  (call.key = "log_info" /\ call.n > 0 /\ ~call.lucky)
    => (call.out = "ConnectionError" /\ db = call.before)

\* The step in which a run resolves its dates and builds its handlers.
Parsed == runs' = runs + 1 /\ exit' # "IndexError"
Lower == IF args'.fromdate > args'.tilldate THEN args'.tilldate ELSE args'.fromdate
Upper == IF args'.fromdate > args'.tilldate THEN args'.fromdate ELSE args'.tilldate

\* C17 as stated: parse_input gives one handler for from = till, and for a
\* range one handler per day of the range, in ascending order of date.
C17_OneSourcePerDay ==
  [][Parsed => /\ Len(handlers') = Upper - Lower + 1
               /\ \A i \in 1..Len(handlers') :
                    handlers'[i].log_file_name = Lower + (i - 1)]_vars

\* C17, amended: parse_input gives one handler for from = till, and for a
\* range (given in either order) one handler per day of the range whose file
\* exists, in ascending order of date.
C17_OneSourcePerLoggedDay ==
  [][Parsed =>
       IF args'.fromdate = args'.tilldate
       THEN Len(handlers') = 1 /\ handlers'[1].log_file_name = args'.fromdate
       ELSE /\ \A i \in 1..Len(handlers'), j \in 1..Len(handlers') :
                 i < j => handlers'[i].log_file_name < handlers'[j].log_file_name
            /\ {handlers'[i].log_file_name : i \in 1..Len(handlers')}
                 = {d \in Lower..Upper : d \in present}]_vars

\* A run was started with from after till, both days have a file, and it has
\* a handler for each.
C17_Witness ==
  /\ pc = "next" /\ hi = 0 /\ args.fromdate > args.tilldate
  /\ Len(handlers) = args.fromdate - args.tilldate + 1
  /\ handlers[1].log_file_name = args.tilldate

\* C18: 'firstlog', and 'lastscan' with an empty checkpoint table, resolve to
\* the earliest log file of the accounting directory, whenever the directory
\* has a file.
C18_FirstlogIsEarliest ==
  [][(/\ runs' = runs + 1 /\ present # {}
      /\ \/ args'.from = "firstlog"
         \/ args'.from = "lastscan" /\ db.pbslog = {})
       => (/\ exit' # "IndexError"
           /\ args'.fromdate \in present
           /\ \A d \in present : args'.fromdate <= d)]_vars

\* C19: lastscan() gives the sentinel 'firstlog' exactly when the checkpoint
\* table is empty, and otherwise the greatest filename of its rows.
C19_LastscanIsGreatest ==
  /\ lastscan(db).firstlog <=> db.pbslog = {}
  /\ db.pbslog # {}
       => /\ \E row \in db.pbslog : row.filename = lastscan(db).filename
          /\ \A row \in db.pbslog : row.filename <= lastscan(db).filename

\* A run was started with from = lastscan on a checkpoint table of two rows.
C19_Witness ==
  /\ pc = "next" /\ hi = 0 /\ args.from = "lastscan"
  /\ Cardinality(db.pbslog) = 2

\* C20: when the latest checkpoint has filename X, 'lastscan' resolves to
\* the day after X.
C20_LastscanIsNextDay ==
  [][(runs' = runs + 1 /\ args'.from = "lastscan" /\ db.pbslog # {})
       => \E row \in db.pbslog :
            /\ \A o \in db.pbslog : o.filename <= row.filename
            /\ args'.fromdate = row.filename + 1]_vars

\* A run started with from = lastscan after the checkpoint of day 1 was
\* written, and its from date is day 2.
C20_Witness ==
  /\ pc = "next" /\ hi = 0 /\ args.from = "lastscan"
  /\ db.pbslog # {} /\ \A row \in db.pbslog : row.filename = 1
  /\ args.fromdate = 2

\* The step in which main takes a line and goes on: the handle stands behind
\* the line that main noted.
Taken == fh' # fh /\ last'.day # 0 /\ last'.day = fh'.day /\ last'.pos = fh'.pos

\* C21: the job upserts of a run follow the log: a line that is upserted lies
\* behind every line the run has read from its file, and the run has read no
\* line of a later day before it.
C21_UpsertsFollowLog ==
  [][(Taken /\ last'.op = "job")
       => /\ last'.pos > rd[last'.day]
          /\ \A d \in Days : d > last'.day => rd[d] = 0]_vars

\* A run has upserted a line of day 2 after it read the file of day 1.
C21_Witness ==
  /\ last.op = "job" /\ last.day = 2 /\ rd[2] = last.pos
  /\ rd[1] > 0 /\ rd[1] = Len(files[1])

\* C22: event_type gives END when start and end are both set, START when
\* start is set and end is None, QUEUED when both are None, UNKNOWN when the
\* fields are absent; whatever the record, it gives one of the four.
C22_EventTypeTable ==
  call.key = "event_type"
    => LET ev == call.data.arg
           has == {"ji_start_time", "ji_end_time"} \subseteq DOMAIN ev
       IN /\ call.data.res \in {"END", "START", "QUEUED", "UNKNOWN"}
          /\ (has /\ ev.ji_start_time # None /\ ev.ji_end_time # None)
               => call.data.res = "END"
          /\ (has /\ ev.ji_start_time # None /\ ev.ji_end_time = None)
               => call.data.res = "START"
          /\ (has /\ ev.ji_start_time = None /\ ev.ji_end_time = None)
               => call.data.res = "QUEUED"
          /\ DOMAIN ev = {} => call.data.res = "UNKNOWN"

\* event_type was given a record without the two fields.
C22_Witness ==
  call.key = "event_type" /\ DOMAIN call.data.arg = {} /\ call.data.res = "UNKNOWN"

\* C23: process_log_line raises LogLineError for a line that has not exactly
\* four fields, whose job state is not Q, S or E, or one of whose tokens has
\* no '='.
C23_BadLineRaisesLogLineError ==
  (/\ call.key = "process_log_line"
   /\ LET line == LineText[call.data.arg.line]
      IN \/ line.nf # 4
         \/ line.st \notin {"Q", "S", "E"}
         \/ \E i \in 1..Len(line.toks) : ~line.toks[i].eq)
    => call.out = "LogLineError"

\* C24: the record built from an S or E line that carries exec_host or
\* exec_vnode with value v has the list of the '+'-separated parts of v as
\* its ji_exechost or ji_execvnode, and no resource entry of that name.
C24_ExecHostIsSplit ==
  call.key = "log_line_parser"
    => LET line == LineText[call.data.arg]
           rec == call.data.res
       IN \A i \in 1..Len(line.toks) :
            /\ (line.st \in {"S", "E"} /\ line.toks[i].k = <<"exec_host">>)
                 => /\ rec.ji_exechost = SplitPlus(Strip(line.toks[i].v))
                    /\ \A key \in DOMAIN rec.resources : key[2] # "exec_host"
            /\ (line.st \in {"S", "E"} /\ line.toks[i].k = <<"exec_vnode">>)
                 => /\ rec.ji_execvnode = SplitPlus(Strip(line.toks[i].v))
                    /\ \A key \in DOMAIN rec.resources : key[2] # "exec_vnode"

\* C25: write raises ValueError whenever the data is no dictionary, whatever
\* the key, and KeyError for a dictionary under a key other than job_info and
\* log_info; in both cases the store is as it was.
C25_WriteRejectsBadCalls ==
  /\ (call.n > 0 /\ ~call.isdict) => (call.out = "ValueError" /\ db = call.before)
  /\ (call.n > 0 /\ call.isdict /\ call.key \notin {"job_info", "log_info"})
       => (call.out = "KeyError" /\ db = call.before)

\* After a job was written, write was given data that is no dictionary under
\* a key that is not configured.
C25_Witness ==
  /\ call.n = 2 /\ ~call.isdict /\ call.key = "other" /\ call.out = "ValueError"
  /\ db.pbsjob # {}

\* C26: a handler in mode today or manualwaiting that leaves the file it has
\* open, for the file of a new day
\* or to wait for that file, has read the file it leaves to its end: no line
\* of it is unread.
C26_SwitchOnlyAtEof ==
  [][(/\ pc = "loop" /\ fh.day # 0
      /\ handlers[hi].run \in {"today", "manualwaiting"}
      /\ \/ pc' = "reopen"
         \/ fh'.day \notin {0, fh.day}
         \/ \E d \in Days : d # fh.day /\ rd'[d] # rd[d])
       => fh.pos = Len(files[fh.day])]_vars

\* C27: a handler that tails today and does not find today's file goes on
\* trying to open it: the missing file never fails the run.
C27_MissingTodayFileNeverFails ==
  ~(exit = "AttributeError" /\ last.op = "fail" /\ last.day = 0)

\* The step in which readline yields a line to main.
Delivered ==
  /\ pc \in {"loop", "reopen"} /\ last'.day # 0
  /\ last'.op \in {"job", "reject", "fail"}
  /\ fh' # fh \/ last' # last

\* C28: when a handler that is not in mode manual has gone from the tracked
\* day D to a later day, the step that delivers the first line of the later
\* day writes the checkpoint of D, with filename D, before anything is
\* written for the line (nothing is written for the line when the checkpoint
\* fails), and the tracked day becomes the later day.
C28_CheckpointAtFirstLine ==
  [][(Delivered /\ handlers[hi].run # "manual" /\ logdate < last'.day)
       => IF last'.op = "fail" /\ last'.ck = 0 THEN db' = db
          ELSE /\ last'.ck = logdate
               /\ \E row \in db'.pbslog :
                    row.filename = logdate /\ row["end"] = now /\ row.start = start
               /\ pc' # "idle"
                    => /\ logdate' = last'.day
                       /\ count' = IF last'.op = "job" THEN 1 ELSE 0]_vars

\* The run read the file of day 1, went over to day 2 and has upserted the
\* first line of day 2, with the checkpoint of day 1 written.
C28_Witness ==
  /\ last.op = "job" /\ last.ck = 1 /\ last.day = 2 /\ last.pos = 1
  /\ logdate = 2 /\ count = 1 /\ rd[1] > 0
  /\ \E row \in db.pbslog : row.filename = 1

\* C29: the end of the file of the current day does not end the sequence of a
\* handler: the handler goes on reading, a handler in mode manual becoming
\* manualwaiting; and once the day has changed, a manualwaiting handler goes
\* over to the new day as a handler in mode today does.
C29_EofOfTodayGoesOn ==
  [][/\ (pc = "eof" /\ pc' # "eof" /\ handlers[hi].log_file_name = now)
         => /\ pc' = "loop" /\ exit' = "none" /\ fh' = fh
            /\ Len(handlers') = Len(handlers)
            /\ handlers'[hi].run = IF handlers[hi].run = "manual" THEN "manualwaiting"
                                   ELSE handlers[hi].run
     /\ (/\ pc = "loop" /\ handlers[hi].run \in {"today", "manualwaiting"}
         /\ now # handlers[hi].log_file_name
         /\ <<pc, fh, handlers, last>>' # <<pc, fh, handlers, last>>)
         => \/ pc' = "idle"
            \/ /\ pc' \in {"loop", "eof", "reopen"}
               /\ handlers'[hi].log_file_name = now
               /\ handlers'[hi].run = handlers[hi].run]_vars

\* A handler constructed in mode manual for day 1 reads the file of day 2 in
\* mode manualwaiting.
C29_Witness ==
  /\ pc = "loop" /\ handlers[hi].run = "manualwaiting"
  /\ handlers[hi].log_file_name = 2 /\ fh.day = 2
  /\ args.fromdate = 1 /\ args.tilldate = 1

\* C30: when the sequence of a handler has ended, the final checkpoint of the
\* tracked day is written if and only if a line was processed successfully
\* since the handler started or last switched files: count is the number of
\* those lines, and the checkpoint is written exactly when it is not 0.
C30_FinalCheckpointIffCounted ==
  [][/\ (pc = "next" /\ pc' = "open") => count' = 0
     /\ (pc \in {"open", "loop", "reopen", "eof"} /\ pc' # "idle")
         => count' = (IF Taken /\ last'.ck # 0 THEN 0 ELSE count)
                       + (IF Taken /\ last'.op = "job" THEN 1 ELSE 0)
     /\ (pc = "after" /\ pc' # "after" /\ count > 0)
         => \/ pc' = "idle" /\ exit' \in {"OperationalError", "ConnectionError"} /\ db' = db
            \/ /\ pc' = "next" /\ last'.op = "final" /\ last'.ck = logdate
               /\ \E row \in db'.pbslog :
                    row.filename = logdate /\ row["end"] = now /\ row.start = start
     /\ (pc = "after" /\ pc' # "after" /\ count = 0)
         => (pc' = "next" /\ db' = db /\ last' = last)]_vars

\* The sequence of a handler ended after a line was upserted, and the final
\* checkpoint of its day is written.
C30_Witness ==
  /\ pc = "next" /\ hi > 0 /\ last.op = "final" /\ last.ck = logdate /\ count > 0
  /\ \E row \in db.pbslog : row.filename = logdate /\ row["end"] = now

\* The key of a token, as the claims about process_log_line speak of it: it is
\* on the list of the job state, or it starts with a prefix and a '.', or it
\* is neither.
Whitelisted(tok, state) == Len(tok.k) = 1 /\ tok.k[1] \in PBS_JOB_VARS[state]
StartsWith(tok, prefix) == Len(tok.k) >= 2 /\ tok.k[1] = prefix
Unknown(tok, state) ==
  /\ tok.eq /\ ~Whitelisted(tok, state)
  /\ ~StartsWith(tok, "Resource_List") /\ ~StartsWith(tok, "resources_used")

\* The text of a key's segments, with the '.' between them.
JoinDot(segs) ==
  CASE Len(segs) = 1 -> segs[1]
    [] segs = <<"mem", "max">> -> "mem.max"

\* C31: on a handler that has its log, a line of four fields and a known job
\* state, all of whose tokens have an '=', is parsed whatever unknown keys it
\* carries: process_log_line returns, and it returns what it returns for the
\* line without the tokens of unknown key.
C31_UnknownKeyIsDiscarded ==
  (/\ call.key = "process_log_line" /\ call.data.arg.log
   /\ LET line == LineText[call.data.arg.line]
      IN /\ line.nf = 4 /\ line.st \in DOMAIN PBS_JOB_VARS
         /\ \A i \in 1..Len(line.toks) : line.toks[i].eq
         /\ \E i \in 1..Len(line.toks) : Unknown(line.toks[i], line.st))
    => /\ call.out = "ok"
       /\ LET line == LineText[call.data.arg.line]
              known == SelectSeq(line.toks, LAMBDA tok : ~Unknown(tok, line.st))
          IN call.data.res = process_log_line(TRUE, [line EXCEPT !.toks = known])

\* C32: in the result of process_log_line, the value of a token whose key
\* starts with 'Resource_List.' (resources_used.) is in the requested (used)
\* resources under the whole of the key behind its first '.'; the value of a
\* key on the list of the job state is in log_dict and in neither of the two.
C32_ResourceKeyIsRemainder ==
  (call.key = "process_log_line" /\ call.out = "ok")
    => LET line == LineText[call.data.arg.line]
           res == call.data.res
       IN \A i \in 1..Len(line.toks) :
            /\ StartsWith(line.toks[i], "Resource_List")
                 => /\ JoinDot(Tail(line.toks[i].k)) \in DOMAIN res.rsrc_requested
                    /\ res.rsrc_requested[JoinDot(Tail(line.toks[i].k))] = line.toks[i].v
            /\ StartsWith(line.toks[i], "resources_used")
                 => /\ JoinDot(Tail(line.toks[i].k)) \in DOMAIN res.rsrc_used
                    /\ res.rsrc_used[JoinDot(Tail(line.toks[i].k))] = line.toks[i].v
            /\ Whitelisted(line.toks[i], line.st)
                 => /\ line.toks[i].k[1] \in DOMAIN res.log_dict
                    /\ res.log_dict[line.toks[i].k[1]] = Strip(line.toks[i].v)
                    /\ line.toks[i].k[1] \notin DOMAIN res.rsrc_requested
                    /\ line.toks[i].k[1] \notin DOMAIN res.rsrc_used

\* C33: a run reads the lines of a file one after the other; a line of
\* exactly four fields whose second field is L is not passed on to main
\* (nothing is written or counted for it), every other line that is read is
\* passed on to main, once and at its place in the file.
C33_LicenseLinesAreSwallowed ==
  [][\A d \in Days :
       (runs' = runs /\ rd'[d] # rd[d])
         => /\ rd'[d] = rd[d] + 1
            /\ IF /\ LineText[files[d][rd'[d]]].nf = 4
                  /\ LineText[files[d][rd'[d]]].st = "L"
               THEN /\ db' = db /\ cks' = cks
                    /\ \/ last'.op = "swallow" /\ count' = count /\ pc' = "loop"
                       \/ last'.op = "fail" /\ exit' = "AttributeError"
               ELSE /\ last'.op \in {"job", "reject", "fail"}
                    /\ last'.day = d /\ last'.pos = rd'[d]]_vars

\* Behind a license record of four fields the run has taken a license record
\* of three, which main rejected.
C33_Witness ==
  /\ last.op = "reject" /\ last.pos = 2
  /\ files[last.day][1] = "LR" /\ files[last.day][2] = "L3"

\* The line carries the token key=val.
HasTok(line, key, val) ==
  \E i \in 1..Len(line.toks) :
    line.toks[i].eq /\ line.toks[i].k = key /\ Strip(line.toks[i].v) = val

\* The line carries a token whose key starts with the prefix and a '.'.
HasPrefix(line, prefix) ==
  \E i \in 1..Len(line.toks) : StartsWith(line.toks[i], prefix)

\* C34: the record built from an S line of job 0.cylc-vm that carries a
\* start, no end, Resource_List.ncpus=1, Resource_List.place=pack, a
\* resource_assigned token and no resources_used token has event_type START
\* and ji_sv_name cylc-vm; its resources have l_ncpus = 1 and l_place = pack,
\* no u_ entry, and nothing of the resource_assigned token.
C34_StartEventLogBuilds ==
  (/\ call.key = "log_line_parser"
   /\ LET line == LineText[call.data.arg]
      IN /\ line.nf = 4 /\ line.st = "S" /\ line.jid = Job0
         /\ HasTok(line, <<"start">>, "1542010810")
         /\ ~\E i \in 1..Len(line.toks) : line.toks[i].k = <<"end">>
         /\ HasTok(line, <<"Resource_List", "ncpus">>, "1")
         /\ HasTok(line, <<"Resource_List", "place">>, "pack")
         /\ HasPrefix(line, "resource_assigned")
         /\ ~HasPrefix(line, "resources_used"))
    => LET rec == call.data.res
       IN /\ rec.event_type = "START"
          /\ rec.ji_sv_name = "cylc-vm"
          /\ <<"l_", "ncpus">> \in DOMAIN rec.resources
          /\ rec.resources[<<"l_", "ncpus">>] = "1"
          /\ <<"l_", "place">> \in DOMAIN rec.resources
          /\ rec.resources[<<"l_", "place">>] = "pack"
          /\ \A key \in DOMAIN rec.resources : key[1] = "l_"
          /\ \A key \in DOMAIN rec.resources :
               \E i \in 1..Len(LineText[call.data.arg].toks) :
                 /\ StartsWith(LineText[call.data.arg].toks[i], "Resource_List")
                 /\ LineText[call.data.arg].toks[i].k[2] = key[2]
                 /\ LineText[call.data.arg].toks[i].v = rec.resources[key]

\* The record of the start line of job 0.cylc-vm was built.
C34_Witness ==
  /\ call.key = "log_line_parser" /\ call.data.arg = "S0"
  /\ call.data.res.event_type = "START"
  /\ HasPrefix(LineText["S0"], "resource_assigned")

\* C35: a job_info write that fails after it has changed the job table has
\* stored every resource entry of its record: the store is never left with
\* the new job row and only some of the resource rows of the event.
C35_JobWriteIsAtomic ==
  (/\ call.key = "job_info" /\ call.out # "ok" /\ call.n > 0
   /\ "resources" \in DOMAIN call.data
   /\ db.pbsjob # call.before.pbsjob)
    => \A row \in db.pbsjob :
         row.ji_jobid = call.data.ji_jobid
           => \A key \in DOMAIN call.data.resources :
                \E res \in db.pbsjobarr :
                  /\ res.ji_pbsjobidx = row.ji_pbsjobidx
                  /\ res.ji_arrresource = key
                  /\ res.ji_arrvalue = call.data.resources[key]

\* C36: a job_info write that found the connection dead at one of its
\* inserts and left a session that was opened again (the reconnect went
\* through within the retries) has been applied: it returns, and the row of
\* its job is in the store.
C36_ReconnectedWriteIsApplied ==
  (/\ call.n > 0 /\ call.key = "job_info" /\ call.isdict
   /\ ~call.lucky /\ call.session = "open"
   /\ call.out \notin {"ValueError", "KeyError"})
    => /\ call.out = "ok"
       /\ \E row \in db.pbsjob : row.ji_jobid = call.data.ji_jobid

\* C37: every checkpoint in the store is the checkpoint of a day whose log
\* file exists in the accounting directory.
C37_CheckpointsOfLoggedDays ==
  \A row \in db.pbslog : row.filename \in present

\* C38: a job row that has an end time keeps one: in every step, the job of a
\* row whose ji_end_time is not None has a row whose ji_end_time is not None
\* afterwards, whichever line the step ingests.
C38_EndTimeIsKept ==
  [][\A row \in db.pbsjob :
       row.ji_end_time # None
         => \E after \in db'.pbsjob :
              after.ji_jobid = row.ji_jobid /\ after.ji_end_time # None]_vars

\* C39: a job_info write leaves the rows of every other job, the resource
\* rows of every other job and the checkpoints as they were; a log_info write
\* leaves the job rows and the resource rows as they were.
C39_WritesKeepToTheirRows ==
  /\ (call.n > 0 /\ call.key = "job_info" /\ call.isdict)
       => /\ {r \in db.pbsjob : r.ji_jobid # call.data.ji_jobid}
               = {r \in call.before.pbsjob : r.ji_jobid # call.data.ji_jobid}
          /\ \A other \in call.before.pbsjob :
               other.ji_jobid # call.data.ji_jobid
                 => {r \in db.pbsjobarr : r.ji_pbsjobidx = other.ji_pbsjobidx}
                      = {r \in call.before.pbsjobarr : r.ji_pbsjobidx = other.ji_pbsjobidx}
          /\ db.pbslog = call.before.pbslog
  /\ (call.n > 0 /\ call.key = "log_info" /\ call.isdict)
       => /\ db.pbsjob = call.before.pbsjob
          /\ db.pbsjobarr = call.before.pbsjobarr

\* A job_info write went through on a store that held the row and the
\* resource rows of another job.
C39_Witness ==
  /\ call.n = 2 /\ call.key = "job_info" /\ call.out = "ok"
  /\ \E other \in call.before.pbsjob :
       /\ other.ji_jobid # call.data.ji_jobid
       /\ \E r \in db.pbsjobarr : r.ji_pbsjobidx = other.ji_pbsjobidx
  /\ \E row \in db.pbsjob : row.ji_jobid = call.data.ji_jobid

\* C40: in every step of a run, a handler keeps its mode or goes from manual
\* to manualwaiting, and a handler in mode manual keeps its file name,
\* whatever the day is.
C40_ModeOnlyManualToWaiting ==
  [][\A i \in 1..Len(handlers) :
       i <= Len(handlers')
         => /\ \/ handlers'[i].run = handlers[i].run
               \/ handlers[i].run = "manual" /\ handlers'[i].run = "manualwaiting"
            /\ handlers[i].run = "manual"
                 => handlers'[i].log_file_name = handlers[i].log_file_name]_vars

\* A handler in mode manual has read a line of the file of a day that is not
\* the current day.
C40_Witness ==
  /\ pc = "loop" /\ handlers[hi].run = "manual"
  /\ handlers[hi].log_file_name # now
  /\ fh.day = handlers[hi].log_file_name /\ fh.pos > 0

====
